---- MODULE Spec2Model ----
(***************************************************************************)
(* Model of src/Personal/scripts/gh-stats.py: a batch tool that pages      *)
(* through a repository's releases, filters them by tag prefix, groups     *)
(* each release's assets by (platform, packaging) and prints one table     *)
(* per release.                                                            *)
(*                                                                         *)
(* Python strings are TLA+ strings handled character by character through  *)
(* Len, SubSeq and \o.  A Python value that may be None is a sequence of   *)
(* length 0 (None) or 1 (the value).                                       *)
(***************************************************************************)
EXTENDS Integers, Sequences, FiniteSets, TLC

VARIABLES
    argc,           \* len(sys.argv)
    limit,          \* int(sys.argv[2]), or 20
    tag_prefix,     \* sys.argv[3], or ""
    repo_releases,  \* the environment: every release of the repository, newest first
    per_page,       \* the environment: how many releases the server puts on a page
    pc,             \* position of main
    url,            \* main's url (None or a string)
    releases,       \* main's releases list
    requests,       \* the environment: the URLs gh_get was called with, in order
    out,            \* everything printed so far
    ri,             \* index of the release the for loop of line 212 is at
    ai,             \* index of the asset the for loop of line 222 is at
    buckets,        \* main's buckets dict, in insertion order
    version_total,  \* main's version_total
    asset_name_in,  \* argument of the classifier call under test
    platform_out,   \* its result (None before the call)
    rows_in,        \* argument of the renderer calls under test
    rich_out,       \* rows added to the rich table (None before the call)
    md_out          \* table lines printed by the Markdown renderer (None before the call)

mainVars == <<argc, limit, tag_prefix, repo_releases, per_page, pc, url, releases,
              requests, out, ri, ai, buckets, version_total>>
classVars == <<asset_name_in, platform_out>>
renderVars == <<rows_in, rich_out, md_out>>
vars == <<mainVars, classVars, renderVars>>

None == <<>>
Some(v) == <<v>>

(***************************************************************************)
(* Python string primitives.                                               *)
(***************************************************************************)
Char(s, i) == SubSeq(s, i, i)

UpperAlpha == "ABCDEFGHIJKLMNOPQRSTUVWXYZ"
LowerAlpha == "abcdefghijklmnopqrstuvwxyz"

UpperChars == {Char(UpperAlpha, i) : i \in 1..Len(UpperAlpha)}
LowerOf == [c \in UpperChars |->
              Char(LowerAlpha, CHOOSE i \in 1..Len(UpperAlpha) : Char(UpperAlpha, i) = c)]

LowerChar(c) == IF c \in UpperChars THEN LowerOf[c] ELSE c

RECURSIVE Lower(_)
Lower(s) == IF s = "" THEN "" ELSE LowerChar(Char(s, 1)) \o Lower(SubSeq(s, 2, Len(s)))

\* k in s
Contains(s, k) == \E i \in 1..(Len(s) - Len(k) + 1) : SubSeq(s, i, i + Len(k) - 1) = k

StartsWith(s, k) == Len(k) <= Len(s) /\ SubSeq(s, 1, Len(k)) = k

EndsWith(s, k) == Len(k) <= Len(s) /\ SubSeq(s, Len(s) - Len(k) + 1, Len(s)) = k

\* s.find(c): 0-based index of the first occurrence, -1 when there is none
RECURSIVE FindFrom(_, _, _)
FindFrom(s, c, i) ==
    IF i + Len(c) - 1 > Len(s) THEN -1
    ELSE IF SubSeq(s, i, i + Len(c) - 1) = c THEN i - 1
    ELSE FindFrom(s, c, i + 1)

Find(s, c) == FindFrom(s, c, 1)

\* s[start:end] with Python's treatment of negative and out-of-range indices
PySlice(s, start, end) ==
    LET n == Len(s)
        clamp(i) == IF i < 0 THEN (IF n + i < 0 THEN 0 ELSE n + i)
                    ELSE (IF i > n THEN n ELSE i)
    IN  SubSeq(s, clamp(start) + 1, clamp(end))

Digits == "0123456789"

\* str(n) for n >= 0
RECURSIVE IntToStr(_)
IntToStr(n) ==
    IF n < 10 THEN Char(Digits, n + 1)
    ELSE IntToStr(n \div 10) \o Char(Digits, (n % 10) + 1)

(***************************************************************************)
(* Asset normalization.                                                    *)
(***************************************************************************)
ChecksumExts == {".sha256", ".sha512", ".sha1", ".md5", ".sig", ".asc"}

\* CHECKSUM_EXT_RE.search(name): "$" matches at the end of the string and
\* also just before a final newline; IGNORECASE.
is_checksum_like(name) ==
    LET s == Lower(name)
        body == IF EndsWith(s, "\n") THEN SubSeq(s, 1, Len(s) - 1) ELSE s
    IN  \E e \in ChecksumExts : EndsWith(s, e) \/ EndsWith(body, e)

WindowsMarkers == {"windows", "win32", "win64", "msvc", ".exe", ".msi"}
MacMarkers == {"darwin", "macos", "osx", "apple"}
BsdMarkers == {"freebsd", "openbsd", "netbsd"}

AnyIn(markers, s) == \E k \in markers : Contains(s, k)

\* os_label with the linux and BSD rules in the other order
os_label_swapped(s) ==
    IF AnyIn(WindowsMarkers, s) THEN "windows"
    ELSE IF AnyIn(MacMarkers, s) THEN "macos"
    ELSE IF AnyIn(BsdMarkers, s) THEN "bsd"
    ELSE IF Contains(s, "linux") THEN "linux"
    ELSE "other"

os_label(s) ==
    IF AnyIn(WindowsMarkers, s) THEN "windows"
    ELSE IF AnyIn(MacMarkers, s) THEN "macos"
    ELSE IF Contains(s, "linux") THEN "linux"
    ELSE IF AnyIn(BsdMarkers, s) THEN "bsd"
    ELSE "other"

arch_label(s) ==
    IF AnyIn({"aarch64", "arm64"}, s) THEN "arm64"
    ELSE IF AnyIn({"x86_64", "amd64", "x64"}, s) THEN "x86_64"
    ELSE IF AnyIn({"armv7", "armhf"}, s) THEN "armv7"
    ELSE IF AnyIn({"i386", "x86", "386"}, s) THEN "x86"
    ELSE "unknown"

detect_platform(asset_name) ==
    LET s == Lower(asset_name)
    IN  os_label(s) \o "/" \o arch_label(s)

detect_packaging(asset_name) ==
    LET s == Lower(asset_name)
    IN  IF EndsWith(s, ".zip") THEN "zip"
        ELSE IF EndsWith(s, ".tar.gz") \/ EndsWith(s, ".tgz") THEN "tar.gz"
        ELSE IF EndsWith(s, ".tar.xz") THEN "tar.xz"
        ELSE IF EndsWith(s, ".exe") THEN "exe"
        ELSE IF EndsWith(s, ".msi") THEN "msi"
        ELSE IF EndsWith(s, ".dmg") THEN "dmg"
        ELSE "file"

(***************************************************************************)
(* Display helpers.                                                        *)
(***************************************************************************)
Ellipsis == "~"   \* stands for the one-character string U+2026
EmDash == "="     \* stands for the one-character string U+2014
Backtick == "'"   \* stands for the backquote character

MB == 1048576     \* 1024 * 1024
ShortenOver == 50
ShortenKeep == 47

\* f"{num_bytes / (1024 * 1024):.2f}" for num_bytes >= 0.  The division by a
\* power of two is exact, and the format rounds the exact quotient to two
\* decimals, ties to even.
human_mb(num_bytes) ==
    LET scaled == (num_bytes % MB) * 100
        q == (num_bytes \div MB) * 100 + scaled \div MB
        r == scaled % MB
        h == IF 2 * r > MB \/ (2 * r = MB /\ q % 2 = 1) THEN q + 1 ELSE q
        frac == h % 100
    IN  IntToStr(h \div 100) \o "." \o IntToStr(frac \div 10) \o IntToStr(frac % 10)

\* re.sub(r"^[^-]+-", Ellipsis, s), then the cut to 47 characters plus an
\* ellipsis when the result is longer than 50.
shorten_asset_name(asset_name) ==
    LET h == Find(asset_name, "-")
        s2 == IF h >= 1 THEN Ellipsis \o SubSeq(asset_name, h + 2, Len(asset_name))
              ELSE asset_name
    IN  IF Len(s2) > ShortenOver THEN SubSeq(s2, 1, ShortenKeep) \o Ellipsis ELSE s2

(***************************************************************************)
(* Python's ordering of strings and of the renderers' sort keys.           *)
(***************************************************************************)
\* the characters the tags are made of, in code point order
CodePoints == "-./0123456789ABCDEFGHIJKLMNOPQRSTUVWXYZ_abcdefghijklmnopqrstuvwxyz"

Ord(c) == CHOOSE i \in 1..Len(CodePoints) : Char(CodePoints, i) = c

\* a < b for Python strings
RECURSIVE StrLess(_, _)
StrLess(a, b) ==
    IF b = "" THEN FALSE
    ELSE IF a = "" THEN TRUE
    ELSE IF Char(a, 1) = Char(b, 1) THEN StrLess(SubSeq(a, 2, Len(a)), SubSeq(b, 2, Len(b)))
    ELSE Ord(Char(a, 1)) < Ord(Char(b, 1))

\* a < b for the key tuples (int, str, str)
KeyLess(a, b) ==
    \/ a[1] < b[1]
    \/ a[1] = b[1] /\ StrLess(a[2], b[2])
    \/ a[1] = b[1] /\ a[2] = b[2] /\ StrLess(a[3], b[3])

\* rich_sort_key without the negation of downloads
rich_sort_key_ascending(r) == <<r.downloads, r.platform, r.package>>

\* the key lambda of line 137
rich_sort_key(r) == <<-r.downloads, r.platform, r.package>>

\* the key lambda of line 164
md_sort_key(r) == <<-r.downloads, r.platform, r.package>>

\* list.sort on keyed items: a stable insertion of each item behind every
\* item whose key is not greater.  An item is <<key, row>>.
RECURSIVE InsertKeyed(_, _)
InsertKeyed(sortedItems, item) ==
    IF sortedItems = <<>> THEN <<item>>
    ELSE IF KeyLess(item[1], Head(sortedItems)[1]) THEN <<item>> \o sortedItems
    ELSE <<Head(sortedItems)>> \o InsertKeyed(Tail(sortedItems), item)

RECURSIVE SortKeyed(_)
SortKeyed(items) ==
    IF items = <<>> THEN <<>>
    ELSE InsertKeyed(SortKeyed(SubSeq(items, 1, Len(items) - 1)), items[Len(items)])

\* sorted(rows, key=...) with the keys already computed: keys[i] is the key of rows[i]
Sorted(rows, keys) ==
    LET items == [i \in 1..Len(rows) |-> <<keys[i], rows[i]>>]
        done == SortKeyed(items)
    IN  [i \in 1..Len(rows) |-> done[i][2]]

(***************************************************************************)
(* Rendering.  A release of the model carries no published_at, so a title  *)
(* has no date part.                                                       *)
(***************************************************************************)
Title(tag, name) == IF name # "" THEN tag \o " " \o EmDash \o " " \o name ELSE tag

\* the rows print_release_table_rich adds to its table, in order
RichTableRows(rows) ==
    LET srt == Sorted(rows, [i \in 1..Len(rows) |-> rich_sort_key(rows[i])])
    IN  [i \in 1..Len(rows) |->
            <<srt[i].platform, srt[i].package, IntToStr(srt[i].downloads),
              srt[i].size_mb, srt[i].short_name>>]

\* what print_release_table_rich prints
print_release_table_rich(tag, name, rows, total) ==
    [kind |-> "release", title |-> Title(tag, name), total |-> total,
     table |-> RichTableRows(rows)]

MdLine(r) ==
    "| " \o r.platform \o " | " \o r.package \o " | " \o IntToStr(r.downloads)
         \o " | " \o r.size_mb \o " | " \o Backtick \o r.short_name \o Backtick \o " |"

\* the table lines print_release_table prints below the header, in order
MdTableLines(rows) ==
    LET srt == Sorted(rows, [i \in 1..Len(rows) |-> md_sort_key(rows[i])])
    IN  [i \in 1..Len(rows) |-> MdLine(srt[i])]

(***************************************************************************)
(* Pagination.                                                             *)
(***************************************************************************)
\* s.split(sep) for a one-character sep
RECURSIVE Split(_, _)
Split(s, sep) ==
    LET i == Find(s, sep)
    IN  IF i < 0 THEN <<s>>
        ELSE <<SubSeq(s, 1, i)>> \o Split(SubSeq(s, i + 2, Len(s)), sep)

IsSpace(c) == c \in {" ", "\t", "\n", "\r"}

RECURSIVE Strip(_)
Strip(s) ==
    IF s = "" THEN ""
    ELSE IF IsSpace(Char(s, 1)) THEN Strip(SubSeq(s, 2, Len(s)))
    ELSE IF IsSpace(Char(s, Len(s))) THEN Strip(SubSeq(s, 1, Len(s) - 1))
    ELSE s

RelNext == "rel=\"next\""

\* first_rel_next taking the rel="last" part
first_rel_last(parts) ==
    IF \E i \in 1..Len(parts) : Contains(Strip(parts[i]), "rel=\"last\"")
    THEN LET i == CHOOSE j \in 1..Len(parts) :
                    /\ Contains(Strip(parts[j]), "rel=\"last\"")
                    /\ \A k \in 1..(j - 1) : ~Contains(Strip(parts[k]), "rel=\"last\"")
             part == Strip(parts[i])
         IN  Some(PySlice(part, Find(part, "<") + 1, Find(part, ">")))
    ELSE None

\* the for loop of parse_next_link over the stripped parts
first_rel_next(parts) ==
    IF \E i \in 1..Len(parts) : Contains(Strip(parts[i]), RelNext)
    THEN LET i == CHOOSE j \in 1..Len(parts) :
                    /\ Contains(Strip(parts[j]), RelNext)
                    /\ \A k \in 1..(j - 1) : ~Contains(Strip(parts[k]), RelNext)
             part == Strip(parts[i])
         IN  Some(PySlice(part, Find(part, "<") + 1, Find(part, ">")))
    ELSE None

\* link_header is None or Some(string); the result is None or Some(string)
parse_next_link(link_header) ==
    IF link_header = None \/ link_header[1] = "" THEN None
    ELSE first_rel_next(Split(link_header[1], ","))

(***************************************************************************)
(* The environment: the releases endpoint of the remote API.  The server   *)
(* cuts the repository's release list into pages of per_page releases and  *)
(* links each page to its neighbours in a Link header.                     *)
(***************************************************************************)
Min(a, b) == IF a < b THEN a ELSE b
Max(a, b) == IF a > b THEN a ELSE b

\* the URL of line 193 and its later pages, without scheme and host
PageUrl(k) == "/repos/acme/tool/releases?per_page=100&page=" \o IntToStr(k)

NumPages ==
    IF repo_releases = <<>> THEN 1
    ELSE (Len(repo_releases) + per_page - 1) \div per_page

PageBatch(k) ==
    SubSeq(repo_releases, (k - 1) * per_page + 1, Min(k * per_page, Len(repo_releases)))

RECURSIVE Join(_, _)
Join(parts, sep) ==
    IF parts = <<>> THEN ""
    ELSE IF Len(parts) = 1 THEN parts[1]
    ELSE parts[1] \o sep \o Join(Tail(parts), sep)

LinkPart(k, rel) == "<" \o PageUrl(k) \o ">; rel=\"" \o rel \o "\""

\* the Link header of page k: absent when the list fits on one page
LinkHeader(k) ==
    IF NumPages = 1 THEN None
    ELSE Some(Join(
            (IF k > 1 THEN <<LinkPart(k - 1, "prev")>> ELSE <<>>)
         \o (IF k < NumPages THEN <<LinkPart(k + 1, "next"), LinkPart(NumPages, "last")>> ELSE <<>>)
         \o (IF k > 1 THEN <<LinkPart(1, "first")>> ELSE <<>>),
            ", "))

\* the page a URL names
PageOf(u) == CHOOSE k \in 1..NumPages : PageUrl(k) = u

\* a successful gh_get(url, token): the decoded body and the Link header
gh_get(u) == [batch |-> PageBatch(PageOf(u)), link |-> LinkHeader(PageOf(u))]

(***************************************************************************)
(* main                                                                    *)
(***************************************************************************)
DefaultLimit == 20
LimitFactor == 3

Truthy(opt) == opt # None /\ opt[1] # ""

\* opt or ""
OrEmpty(opt) == IF opt = None THEN "" ELSE opt[1]

\* the while condition of line 196
loop_cond(u, rels, lim) == Truthy(u) /\ Len(rels) < lim * LimitFactor

\* lines 202-203
filter_by_prefix(rels, prefix) ==
    IF prefix # ""
    THEN SelectSeq(rels, LAMBDA r : StartsWith(OrEmpty(r.tag_name), prefix))
    ELSE rels

\* take_latest with releases[:limit - 1]
take_latest_one_short(rels, lim) == PySlice(rels, 0, lim - 1)

\* line 204: releases[:limit]
take_latest(rels, lim) == PySlice(rels, 0, lim)

\* select_releases truncating before it filters
select_releases_take_first(rels, prefix, lim) ==
    filter_by_prefix(take_latest(rels, lim), prefix)

\* lines 201-204
select_releases(rels, prefix, lim) == take_latest(filter_by_prefix(rels, prefix), lim)

BucketIndex(bks, platform, package) ==
    CHOOSE i \in 1..Len(bks) : bks[i].platform = platform /\ bks[i].package = package

HasBucket(bks, platform, package) ==
    \E i \in 1..Len(bks) : bks[i].platform = platform /\ bks[i].package = package

\* lines 237-244: the bucket is created when its key is not in buckets
ensure_bucket(bks, platform, package, asset_name) ==
    IF HasBucket(bks, platform, package) THEN bks
    ELSE Append(bks, [platform |-> platform, package |-> package, downloads |-> 0,
                      size_bytes |-> 0, short_name |-> shorten_asset_name(asset_name)])

\* aggregate storing the size of the last asset instead of the maximum
aggregate_last_size(bks, a) ==
    IF is_checksum_like(a.name) THEN bks
    ELSE LET platform == detect_platform(a.name)
             package == detect_packaging(a.name)
             bks1 == ensure_bucket(bks, platform, package, a.name)
             i == BucketIndex(bks1, platform, package)
         IN  [bks1 EXCEPT ![i].downloads = @ + a.download_count,
                          ![i].size_bytes = a.size]

\* aggregate assigning the downloads instead of adding them
aggregate_no_sum(bks, a) ==
    IF is_checksum_like(a.name) THEN bks
    ELSE LET platform == detect_platform(a.name)
             package == detect_packaging(a.name)
             bks1 == ensure_bucket(bks, platform, package, a.name)
             i == BucketIndex(bks1, platform, package)
         IN  [bks1 EXCEPT ![i].downloads = a.download_count,
                          ![i].size_bytes = Max(@, a.size)]

\* aggregate overwriting short_name on every asset
aggregate_rename(bks, a) ==
    IF is_checksum_like(a.name) THEN bks
    ELSE LET platform == detect_platform(a.name)
             package == detect_packaging(a.name)
             bks1 == ensure_bucket(bks, platform, package, a.name)
             i == BucketIndex(bks1, platform, package)
         IN  [bks1 EXCEPT ![i].downloads = @ + a.download_count,
                          ![i].size_bytes = Max(@, a.size),
                          ![i].short_name = shorten_asset_name(a.name)]

\* lines 229-249: what one asset does to buckets
aggregate(bks, a) ==
    IF is_checksum_like(a.name) THEN bks
    ELSE LET platform == detect_platform(a.name)
             package == detect_packaging(a.name)
             bks1 == ensure_bucket(bks, platform, package, a.name)
             i == BucketIndex(bks1, platform, package)
         IN  [bks1 EXCEPT ![i].downloads = @ + a.download_count,
                          ![i].size_bytes = Max(@, a.size)]

\* lines 251-259
build_rows(bks) ==
    [i \in 1..Len(bks) |->
        [platform |-> bks[i].platform, package |-> bks[i].package,
         downloads |-> bks[i].downloads, size_mb |-> human_mb(bks[i].size_bytes),
         short_name |-> bks[i].short_name]]

CurAssets == releases[ri].assets

\* lines 182-185
Usage ==
    /\ pc = "start"
    /\ argc < 2
    /\ out' = out \o <<[kind |-> "usage"], [kind |-> "usage_env"]>>
    /\ pc' = "exit1"
    /\ UNCHANGED <<argc, limit, tag_prefix, repo_releases, per_page, url, releases,
                   requests, ri, ai, buckets, version_total>>
    /\ UNCHANGED <<classVars, renderVars>>

\* Start with the title printed before the first fetch
Start_prints_title ==
    /\ pc = "start"
    /\ argc >= 2
    /\ url' = Some(PageUrl(1))
    /\ releases' = <<>>
    /\ out' = Append(out, [kind |-> "title"])
    /\ pc' = "fetch"
    /\ UNCHANGED <<argc, limit, tag_prefix, repo_releases, per_page,
                   requests, ri, ai, buckets, version_total>>
    /\ UNCHANGED <<classVars, renderVars>>

\* lines 187-194
Start ==
    /\ pc = "start"
    /\ argc >= 2
    /\ url' = Some(PageUrl(1))
    /\ releases' = <<>>
    /\ pc' = "fetch"
    /\ UNCHANGED <<argc, limit, tag_prefix, repo_releases, per_page,
                   requests, out, ri, ai, buckets, version_total>>
    /\ UNCHANGED <<classVars, renderVars>>

\* lines 196-199, one iteration whose gh_get returns
FetchOk ==
    /\ pc = "fetch"
    /\ loop_cond(url, releases, limit)
    /\ requests' = Append(requests, url[1])
    /\ releases' = releases \o gh_get(url[1]).batch
    /\ url' = parse_next_link(gh_get(url[1]).link)
    /\ UNCHANGED <<argc, limit, tag_prefix, repo_releases, per_page, pc,
                   out, ri, ai, buckets, version_total>>
    /\ UNCHANGED <<classVars, renderVars>>

\* lines 196-197, an iteration whose gh_get raises: nothing catches it
FetchFail ==
    /\ pc = "fetch"
    /\ loop_cond(url, releases, limit)
    /\ requests' = Append(requests, url[1])
    /\ pc' = "crashed"
    /\ UNCHANGED <<argc, limit, tag_prefix, repo_releases, per_page, url, releases,
                   out, ri, ai, buckets, version_total>>
    /\ UNCHANGED <<classVars, renderVars>>

\* lines 201-210, once the while condition is false
FilterAndHeader ==
    /\ pc = "fetch"
    /\ ~loop_cond(url, releases, limit)
    /\ releases' = select_releases(releases, tag_prefix, limit)
    /\ out' = out \o <<[kind |-> "title"],
                       [kind |-> "summary", count |-> Len(releases'),
                        filtered |-> (tag_prefix # "")]>>
    /\ ri' = 1
    /\ pc' = "release"
    /\ UNCHANGED <<argc, limit, tag_prefix, repo_releases, per_page, url,
                   requests, ai, buckets, version_total>>
    /\ UNCHANGED <<classVars, renderVars>>

\* lines 212-221
BeginRelease ==
    /\ pc = "release"
    /\ ri <= Len(releases)
    /\ buckets' = <<>>
    /\ version_total' = 0
    /\ ai' = 1
    /\ pc' = "asset"
    /\ UNCHANGED <<argc, limit, tag_prefix, repo_releases, per_page, url, releases,
                   requests, out, ri>>
    /\ UNCHANGED <<classVars, renderVars>>

\* lines 222-249, one iteration
AssetStep ==
    /\ pc = "asset"
    /\ ai <= Len(CurAssets)
    /\ version_total' = version_total + CurAssets[ai].download_count
    /\ buckets' = aggregate(buckets, CurAssets[ai])
    /\ ai' = ai + 1
    /\ UNCHANGED <<argc, limit, tag_prefix, repo_releases, per_page, pc, url, releases,
                   requests, out, ri>>
    /\ UNCHANGED <<classVars, renderVars>>

\* lines 251-262, once the assets are exhausted
RenderRelease ==
    /\ pc = "asset"
    /\ ai > Len(CurAssets)
    /\ out' = Append(out, print_release_table_rich(OrEmpty(releases[ri].tag_name),
                              releases[ri].name, build_rows(buckets), version_total))
    /\ ri' = ri + 1
    /\ pc' = "release"
    /\ UNCHANGED <<argc, limit, tag_prefix, repo_releases, per_page, url, releases,
                   requests, ai, buckets, version_total>>
    /\ UNCHANGED <<classVars, renderVars>>

\* the for loop of line 212 is exhausted: main returns
Finish ==
    /\ pc = "release"
    /\ ri > Len(releases)
    /\ pc' = "done"
    /\ UNCHANGED <<argc, limit, tag_prefix, repo_releases, per_page, url, releases,
                   requests, out, ri, ai, buckets, version_total>>
    /\ UNCHANGED <<classVars, renderVars>>

(***************************************************************************)
(* The classifier and the renderers on their own.                          *)
(***************************************************************************)
Classify ==
    /\ platform_out = None
    /\ asset_name_in # None
    /\ platform_out' = Some(detect_platform(asset_name_in[1]))
    /\ UNCHANGED <<asset_name_in, mainVars, renderVars>>

RenderRich ==
    /\ rich_out = None
    /\ rows_in # None
    /\ rich_out' = Some(RichTableRows(rows_in[1]))
    /\ UNCHANGED <<rows_in, md_out, mainVars, classVars>>

RenderMarkdown ==
    /\ md_out = None
    /\ rows_in # None
    /\ md_out' = Some(MdTableLines(rows_in[1]))
    /\ UNCHANGED <<rows_in, rich_out, mainVars, classVars>>

(***************************************************************************)
(* Bounds and inputs.                                                      *)
(***************************************************************************)
MaxReleases == 4    \* releases in the repository
MaxPerPage == 2     \* releases on a page
MaxLimit == 2       \* the limit argument
MaxAssets == 3      \* assets of a release
MaxFragments == 2   \* fragments of a filename given to the classifier
MaxRows == 3        \* rows given to a renderer

\* all sequences over S of length at most n
SeqsUpTo(S, n) == UNION {[1..k -> S] : k \in 0..n}

TagChoices == {None, Some("v1.0"), Some("V1.0")}
PrefixChoices == {"v"}

AssetPool == {
    [name |-> "ds-x86_64-linux-gnu.tar.gz", download_count |-> 50, size |-> 2097152],
    [name |-> "ds-linux-amd64.tgz", download_count |-> 10, size |-> 3145728],
    [name |-> "DS-Linux-X64.TAR.GZ", download_count |-> 0, size |-> 1048576],
    [name |-> "ds-1.2.3-x86_64-unknown-linux-gnu-with-debug-symbols.tar.gz",
     download_count |-> 5, size |-> 131072],
    [name |-> "ds-aarch64-apple-darwin.zip", download_count |-> 10, size |-> 1048576],
    [name |-> "ds-x86_64-pc-windows-msvc.exe", download_count |-> 10, size |-> 4194304],
    [name |-> "ds-x86_64-linux-gnu.tar.gz.sha256", download_count |-> 7, size |-> 64],
    [name |-> "SHA256SUMS.ASC", download_count |-> 3, size |-> 128] }

\* the assets every release of a paginated repository carries
SampleAssets == <<
    [name |-> "t-linux.zip", download_count |-> 10, size |-> 3145728],
    [name |-> "t.md5", download_count |-> 2, size |-> 64] >>

ReleaseName(i) == "r" \o IntToStr(i)

\* repositories of up to MaxReleases releases that differ in their tags
PagedRepos ==
    { [i \in 1..Len(tags) |->
          [tag_name |-> tags[i], name |-> ReleaseName(i), assets |-> SampleAssets]] :
      tags \in SeqsUpTo(TagChoices, MaxReleases) }

\* repositories of one release that differ in its assets
OneReleaseRepos ==
    { <<[tag_name |-> Some("v1.0"), name |-> ReleaseName(1), assets |-> assets]>> :
      assets \in SeqsUpTo(AssetPool, MaxAssets) }

ProgramStart ==
    /\ pc = "start"
    /\ url = None
    /\ releases = <<>>
    /\ requests = <<>>
    /\ out = <<>>
    /\ ri = 0
    /\ ai = 0
    /\ buckets = <<>>
    /\ version_total = 0

\* the command line: argv[2] and argv[3] are optional
Arguments ==
    /\ argc \in 1..4
    /\ limit \in (IF argc >= 3 THEN -1..MaxLimit ELSE {DefaultLimit})
    /\ tag_prefix \in (IF argc >= 4 THEN PrefixChoices ELSE {""})

MainIdle ==
    /\ argc = 0
    /\ limit = 0
    /\ tag_prefix = ""
    /\ repo_releases = <<>>
    /\ per_page = 1
    /\ pc = "idle"
    /\ url = None
    /\ releases = <<>>
    /\ requests = <<>>
    /\ out = <<>>
    /\ ri = 0
    /\ ai = 0
    /\ buckets = <<>>
    /\ version_total = 0

ClassIdle == asset_name_in = None /\ platform_out = None
RenderIdle == rows_in = None /\ rich_out = None /\ md_out = None

Init ==
    /\ \/ /\ Arguments
          /\ repo_releases \in PagedRepos
          /\ per_page \in 1..MaxPerPage
       \/ /\ argc = 2 /\ limit = DefaultLimit /\ tag_prefix = ""
          /\ repo_releases \in OneReleaseRepos
          /\ per_page = 1
    /\ ProgramStart
    /\ ClassIdle
    /\ RenderIdle

Next ==
    \/ Usage
    \/ Start
    \/ FetchOk
    \/ FetchFail
    \/ FilterAndHeader
    \/ BeginRelease
    \/ AssetStep
    \/ RenderRelease
    \/ Finish

Spec == Init /\ [][Next]_vars

\* filenames for the classifier: up to MaxFragments fragments put together
Fragments == {"windows", "WIN32", "win", "64", "msvc", ".exe", ".MSI", "Darwin", "macos",
              "osx", "apple", "linux", "Linux-", "freebsd", "open", "bsd", "NetBSD", "tool-"}

RECURSIVE Concat(_)
Concat(parts) == IF parts = <<>> THEN "" ELSE Head(parts) \o Concat(Tail(parts))

Filenames == {Concat(parts) : parts \in SeqsUpTo(Fragments, MaxFragments)}

ClassInit ==
    /\ asset_name_in \in {Some(n) : n \in Filenames}
    /\ platform_out = None
    /\ MainIdle
    /\ RenderIdle

ClassNext == Classify

ClassSpec == ClassInit /\ [][ClassNext]_vars

\* rows for the renderers: what build_rows can return, so no two rows share
\* (platform, package)
RowPlatforms == {"linux/x86_64", "windows/arm64", "macos/x86_64"}
RowPackages == {"tar.gz", "tar.xz"}
RowDownloads == {10, 50}

RowPool ==
    [platform : RowPlatforms, package : RowPackages, downloads : RowDownloads,
     size_mb : {"1.00"}, short_name : {"~a.zip"}]

RowLists ==
    { rows \in SeqsUpTo(RowPool, MaxRows) :
        \A i, j \in 1..Len(rows) :
            i # j => <<rows[i].platform, rows[i].package>> # <<rows[j].platform, rows[j].package>> }

RenderInit ==
    /\ rows_in \in {Some(rows) : rows \in RowLists}
    /\ rich_out = None
    /\ md_out = None
    /\ MainIdle
    /\ ClassIdle

RenderNext == RenderRich \/ RenderMarkdown

RenderSpec == RenderInit /\ [][RenderNext]_vars

(***************************************************************************)
(* Properties.                                                             *)
(***************************************************************************)
RECURSIVE SumSeq(_)
SumSeq(ns) == IF ns = <<>> THEN 0 ELSE Head(ns) + SumSeq(Tail(ns))

\* the aggregation loop of the current release has finished
LoopDone == pc = "asset" /\ ai > Len(CurAssets)

\* positions of the non-checksum assets of the current release that map to a key
Mapped(platform, package) ==
    { i \in 1..Len(CurAssets) :
        /\ ~is_checksum_like(CurAssets[i].name)
        /\ detect_platform(CurAssets[i].name) = platform
        /\ detect_packaging(CurAssets[i].name) = package }

ChecksumPositions == { i \in 1..Len(CurAssets) : is_checksum_like(CurAssets[i].name) }

\* C1: when the aggregation loop of a release has finished, version_total is
\* the sum of the download counts of all its assets, and the downloads of the
\* aggregated rows plus the download counts of the checksum-like assets add
\* up to version_total, so the rows' sum is at most version_total.
C1_Conservation ==
    LoopDone =>
        LET rows == build_rows(buckets)
            rowSum == SumSeq([i \in 1..Len(rows) |-> rows[i].downloads])
            checksumSum == SumSeq([i \in 1..Len(CurAssets) |->
                              IF i \in ChecksumPositions THEN CurAssets[i].download_count ELSE 0])
            allSum == SumSeq([i \in 1..Len(CurAssets) |-> CurAssets[i].download_count])
        IN  /\ version_total = allSum
            /\ rowSum + checksumSum = version_total
            /\ rowSum <= version_total

\* a release with a downloaded checksum file and two assets in one bucket
C1_Witness ==
    /\ LoopDone
    /\ \E i \in ChecksumPositions : CurAssets[i].download_count > 0
    /\ \E k \in 1..Len(buckets) :
          /\ Cardinality(Mapped(buckets[k].platform, buckets[k].package)) >= 2
          /\ \A i \in Mapped(buckets[k].platform, buckets[k].package) :
                CurAssets[i].download_count > 0

\* C2: page fetches happen only while nothing has been printed, nothing is
\* printed once a fetch has failed, and no fetch follows any output.
C2_NoPartialOutput ==
    [][ /\ (requests' # requests => out = <<>> /\ out' = <<>>)
        /\ (out # <<>> => requests' = requests)
        /\ (pc' = "crashed" => out' = <<>>)
        /\ (pc = "crashed" => pc' = "crashed" /\ out' = out) ]_vars

\* a fetch of a later page failed after earlier pages had come in
C2_Witness == pc = "crashed" /\ Len(requests) >= 2 /\ releases # <<>> /\ out = <<>>

\* the releases the requests made so far have brought in (the last request
\* brought nothing when it failed)
FetchedCount == Min(Len(requests) * per_page, Len(repo_releases))

\* C3: the requests go to page 1, 2, 3, ... in link order, each issued while
\* the releases accumulated before it number less than limit*3; between
\* requests url is the next link of the last response; and fetching has
\* stopped only once the last page came in or the accumulated count reached
\* limit*3.  With limit <= 0 there is no request.
C3_PaginationStop ==
    /\ \A i \in 1..Len(requests) :
          /\ requests[i] = PageUrl(i)
          /\ i <= NumPages
          /\ (i - 1) * per_page < limit * 3
    /\ (limit <= 0 => requests = <<>>)
    /\ pc = "fetch" =>
          /\ Len(releases) = FetchedCount
          /\ url = IF Len(requests) < NumPages THEN Some(PageUrl(Len(requests) + 1))
                   ELSE None
    /\ pc \in {"release", "asset", "done"} =>
          \/ Len(requests) = NumPages
          \/ FetchedCount >= limit * 3

\* fetching stopped on the count with a further page left unrequested
C3_Witness ==
    /\ pc = "release"
    /\ limit = 1
    /\ Len(requests) = 3
    /\ NumPages = 4

Sections == SelectSeq(out, LAMBDA o : o.kind = "release")

TitleOf(r) == Title(OrEmpty(r.tag_name), r.name)

\* C4: with no tag prefix and a positive limit, the run ends with exactly
\* min(limit, N) release sections, those of the first min(limit, N) releases
\* of the repository in the order the API returned them.
C4_FirstLimit ==
    (pc = "done" /\ tag_prefix = "" /\ limit > 0) =>
        LET n == Min(limit, Len(repo_releases))
        IN  /\ Len(Sections) = n
            /\ \A i \in 1..n : Sections[i].title = TitleOf(repo_releases[i])

\* a repository of four releases over several pages, cut to a limit of two
C4_Witness ==
    /\ pc = "done"
    /\ tag_prefix = ""
    /\ limit = 2
    /\ Len(repo_releases) = 4
    /\ Len(requests) >= 2
    /\ Len(Sections) = 2

Matches(r, prefix) == r.tag_name # None /\ StartsWith(r.tag_name[1], prefix)

\* C5: with a tag prefix, the run ends with min(limit, number of releases of
\* the whole repository whose tag starts with the prefix) release sections.
C5_NoUnderCount ==
    (pc = "done" /\ tag_prefix # "" /\ limit > 0) =>
        Len(Sections) =
            Min(limit, Cardinality({i \in 1..Len(repo_releases) :
                                        Matches(repo_releases[i], tag_prefix)}))

\* the first k entries of rels that match, in order
RECURSIVE FirstMatching(_, _, _)
FirstMatching(rels, prefix, k) ==
    IF k <= 0 \/ rels = <<>> THEN <<>>
    ELSE IF Matches(Head(rels), prefix)
         THEN <<Head(rels)>> \o FirstMatching(Tail(rels), prefix, k - 1)
         ELSE FirstMatching(Tail(rels), prefix, k)

\* C6: with a non-empty tag prefix, the rendered releases are the first
\* limit entries of the fetched list whose tag starts with the prefix (case
\* matters, a missing tag never matches), in fetched order.
C6_FilterBeforeTruncate ==
    (pc = "done" /\ tag_prefix # "") =>
        LET fetched == SubSeq(repo_releases, 1, FetchedCount)
            expected == FirstMatching(fetched, tag_prefix, limit)
        IN  /\ Len(Sections) = Len(expected)
            /\ \A i \in 1..Len(expected) : Sections[i].title = TitleOf(expected[i])
            /\ \A i \in 1..Len(expected) : Matches(expected[i], tag_prefix)

\* the first fetched release does not match (wrong case or no tag), a later
\* one does and is rendered
C6_Witness ==
    /\ pc = "done"
    /\ tag_prefix # ""
    /\ limit = 1
    /\ Len(repo_releases) >= 3
    /\ ~Matches(repo_releases[1], tag_prefix)
    /\ repo_releases[2].tag_name = Some("V1.0")
    /\ Matches(repo_releases[3], tag_prefix)
    /\ Len(Sections) = 1
    /\ Sections[1].title = TitleOf(repo_releases[3])

SetMax(S) == CHOOSE m \in S : \A x \in S : x <= m

\* C7: when the aggregation loop has finished, every bucket's size_bytes is
\* the largest size among the non-checksum assets mapped to it, no two
\* buckets share a (platform, packaging) pair, every non-checksum asset has
\* its bucket, and every bucket has a non-checksum asset.
C7_SizeIsMax ==
    LoopDone =>
        /\ \A k \in 1..Len(buckets) :
              LET m == Mapped(buckets[k].platform, buckets[k].package)
              IN  /\ m # {}
                  /\ buckets[k].size_bytes = SetMax({CurAssets[i].size : i \in m})
        /\ \A k, l \in 1..Len(buckets) :
              k # l => <<buckets[k].platform, buckets[k].package>>
                       # <<buckets[l].platform, buckets[l].package>>
        /\ \A i \in 1..Len(CurAssets) :
              ~is_checksum_like(CurAssets[i].name) =>
                  HasBucket(buckets, detect_platform(CurAssets[i].name),
                            detect_packaging(CurAssets[i].name))

\* a bucket whose largest asset is not its last one, beside a checksum file
\* whose own pair has no bucket
C7_Witness ==
    /\ LoopDone
    /\ \E k \in 1..Len(buckets) :
          LET m == Mapped(buckets[k].platform, buckets[k].package)
          IN  /\ Cardinality(m) >= 2
              /\ CurAssets[SetMax(m)].size < buckets[k].size_bytes
    /\ \E i \in ChecksumPositions :
          ~HasBucket(buckets, detect_platform(CurAssets[i].name),
                     detect_packaging(CurAssets[i].name))

\* the OS rules in the order of the claim
OsFamilies == <<
    [label |-> "windows", markers |-> {"windows", "win32", "win64", "msvc", ".exe", ".msi"}],
    [label |-> "macos", markers |-> {"darwin", "macos", "osx", "apple"}],
    [label |-> "linux", markers |-> {"linux"}],
    [label |-> "bsd", markers |-> {"freebsd", "openbsd", "netbsd"}] >>

\* the families with a marker in the name, whatever the case of its letters
FamiliesIn(name) ==
    { f \in 1..Len(OsFamilies) : \E k \in OsFamilies[f].markers : Contains(Lower(name), k) }

OsPart(platform) == SubSeq(platform, 1, Find(platform, "/"))

\* C8: the OS label of detect_platform is that of the first family, in the
\* order windows, macos, linux, bsd, with a marker in the filename (letters
\* compared without case), and "other" when no family has one.
C8_OsPrecedence ==
    platform_out # None =>
        LET fams == FamiliesIn(asset_name_in[1])
        IN  OsPart(platform_out[1]) =
                IF fams = {} THEN "other"
                ELSE OsFamilies[CHOOSE f \in fams : \A g \in fams : f <= g].label

\* a filename with a BSD marker and "linux" in mixed case, labelled linux
C8_Witness ==
    /\ platform_out # None
    /\ FamiliesIn(asset_name_in[1]) = {3, 4}
    /\ asset_name_in[1] # Lower(asset_name_in[1])
    /\ OsPart(platform_out[1]) = "linux"

\* row a comes before row b in the order of the claim
Before(a, b) ==
    \/ a.downloads > b.downloads
    \/ a.downloads = b.downloads /\ StrLess(a.platform, b.platform)
    \/ a.downloads = b.downloads /\ a.platform = b.platform /\ StrLess(a.package, b.package)

RowOfCells(cells) ==
    CHOOSE i \in 1..Len(rows_in[1]) :
        rows_in[1][i].platform = cells[1] /\ rows_in[1][i].package = cells[2]

RowOfLine(line) == CHOOSE i \in 1..Len(rows_in[1]) : MdLine(rows_in[1][i]) = line

\* C9: each renderer emits every row once, a row of more downloads before
\* one of fewer, equal downloads by ascending platform tag, then by
\* ascending packaging tag; so the two renderers emit the same order.
C9_SortOrder ==
    LET rows == rows_in[1]
        n == Len(rows)
    IN  /\ rich_out # None =>
              /\ Len(rich_out[1]) = n
              /\ \A i \in 1..n :
                    /\ \E j \in 1..n : rows[j].platform = rich_out[1][i][1]
                                       /\ rows[j].package = rich_out[1][i][2]
                    /\ rich_out[1][i][3] = IntToStr(rows[RowOfCells(rich_out[1][i])].downloads)
              /\ \A i, j \in 1..n :
                    i < j => Before(rows[RowOfCells(rich_out[1][i])],
                                    rows[RowOfCells(rich_out[1][j])])
        /\ md_out # None =>
              /\ Len(md_out[1]) = n
              /\ \A i \in 1..n : \E j \in 1..n : MdLine(rows[j]) = md_out[1][i]
              /\ \A i, j \in 1..n :
                    i < j => Before(rows[RowOfLine(md_out[1][i])], rows[RowOfLine(md_out[1][j])])
        /\ (rich_out # None /\ md_out # None) =>
              \A i \in 1..n : RowOfCells(rich_out[1][i]) = RowOfLine(md_out[1][i])

\* both renderers ran on 10, 10 and 50 downloads, given in another order
C9_Witness ==
    /\ rich_out # None
    /\ md_out # None
    /\ Len(rows_in[1]) = 3
    /\ rows_in[1][1].downloads = 10 /\ rows_in[1][1].platform = "windows/arm64"
    /\ rows_in[1][2].downloads = 10 /\ rows_in[1][2].platform = "linux/x86_64"
    /\ rows_in[1][3].downloads = 50 /\ rows_in[1][3].platform = "macos/x86_64"
    /\ rich_out[1][1][1] = "macos/x86_64"
    /\ rich_out[1][2][1] = "linux/x86_64"
    /\ rich_out[1][3][1] = "windows/arm64"

SetMin(S) == CHOOSE m \in S : \A x \in S : m <= x

====
